---- MODULE Spec2Model ----
(***************************************************************************)
(* Model of the Discord scraper: the Scraper driver of                     *)
(* src/discord_scraper.py (initial catch-up, steady-state pass, live       *)
(* on_message handler, on_resume catch-up) on top of the DataManager and   *)
(* the two DataStore implementations of src/data.py.                       *)
(*                                                                         *)
(* Time is counted in ticks, TicksPerSecond ticks to the second, so that   *)
(* time.time() is a fraction of a second and int(time.time()) truncates.   *)
(* Python's None is modelled by None == 0: message ids are positive and    *)
(* the code tests the cursor by truthiness (`if mid:`).                    *)
(*                                                                         *)
(* A message is its id and its channel, with what the code reads of it:    *)
(* its type, its reference (the id it replies to), whether it was edited,  *)
(* its content, and whether converting it raises. Ids grow with the time   *)
(* of posting.                                                             *)
(* The coroutines are cut at their awaits of the network: a fetch of       *)
(* channel.history is one step, the synchronous code after it another.     *)
(* An exception that leaves begin_scraping ends that coroutine ("crashed");*)
(* the client keeps dispatching on_message and on_resume.                  *)
(*                                                                         *)
(* Specifications:                                                         *)
(*   Spec         the scraper on the default MongoStore, two channels,     *)
(*                ordinary messages posted while it runs                   *)
(*   SpecStores   the same on either DataStore                             *)
(*   SpecFaults   the driver and on_message, with fetches and store writes *)
(*                that raise                                               *)
(*   SpecRestart  a start over three channels on messages posted before    *)
(*                and on frontier documents earlier runs left              *)
(*   SpecApi      DataManager.save_message and save_messages called        *)
(*                directly, on messages of every kind                      *)
(***************************************************************************)
EXTENDS Integers, Sequences, FiniteSets, Bags, TLC

\* ---- bounds of the model ----
MaxMsgs == 3
Limit == 2
MaxRounds == 3
MaxCopies == 2
MaxPosted == 4
MaxItems == 2
TicksPerSecond == 2
StartSecond == 61
Jitter == 1

\* ---- program constants ----
rescan_interval == 60
None == 0

target_channel_ids == <<1, 2>>
three_target_channel_ids == <<1, 2, 3>>
StoreKinds == {"MongoStore", "BasicStore"}

VARIABLES
    channels,           \* DataManager.channels, the tracked channels in their order
    posted,             \* posted[n]: what message n is (type, reference, convertible)
    now,                \* time.time(), in ticks
    source,             \* source[c]: the ids of the messages of channel c, oldest first
    storeKind,          \* the DataStore (and its converter) the DataManager was built with
    messages,           \* the store's message collection, a bag of records
    frontier,           \* the store's frontier documents, by channel
    scraped_initiated,  \* the module's global flag
    pc,                 \* position of the begin_scraping coroutine
    error,              \* the exception that ended that coroutine, "none" while it runs
    uidx,               \* scrape_all_unseen's loop position in that coroutine
    current_channels,   \* scrape_all_channels' working list
    i,                  \* scrape_all_channels' index (0-based)
    channel_id,         \* _scrape_channel's argument
    batch,              \* _scrape_channel's `messages`
    channel_empty,      \* scrape_all_channels' `channel_empty`
    rpc,                \* position of the on_resume handler's coroutine
    ridx,               \* its scrape_all_unseen loop position
    rounds,             \* history: fetches per channel in the current pass
    pass_start,         \* history: time at which the current pass called get_targets
    grown,              \* history: channels that got a message since then
    done_in_pass,       \* history: channels finish_frontier was called for in this pass
    lastUnseen,         \* history: what the last _scrape_unseen_only call saw and saved
    fetch_log,          \* history: the channels fetched in the current pass, in order
    lastCall,           \* history: the last call a client made to the DataManager
    firstSaved,         \* history: the content each saved id had at its first save
    passed              \* history: the ids a client passed to save_message(s)

vars == <<channels, posted, now, source, storeKind, messages, frontier, scraped_initiated,
          pc, error, uidx, current_channels, i, channel_id, batch, channel_empty, rpc,
          ridx, rounds, pass_start, grown, done_in_pass, lastUnseen, fetch_log, lastCall,
          firstSaved, passed>>

Channels == {channels[k] : k \in 1..Len(channels)}

\* ---- helpers ----
EmptyDoc == [k \in {} |-> 0]

Get(doc, key, default) == IF key \in DOMAIN doc THEN doc[key] ELSE default

Merge(doc, upd) ==
    [k \in DOMAIN doc \cup DOMAIN upd |-> IF k \in DOMAIN upd THEN upd[k] ELSE doc[k]]

Reverse(s) == [k \in 1..Len(s) |-> s[Len(s) + 1 - k]]

Take(s, n) == SubSeq(s, 1, IF Len(s) < n THEN Len(s) ELSE n)

Ids(ms) == [k \in 1..Len(ms) |-> ms[k].id]

Range(s) == {s[k] : k \in 1..Len(s)}

NoUnseen == [channel |-> None, delivered |-> <<>>, known |-> {}, saved |-> <<>>,
             raised |-> FALSE]

NoCall == [op |-> "none", channel |-> None, ids |-> <<>>, markers |-> {},
           unconvertible |-> {}, update_frontier |-> FALSE, raised |-> FALSE]

\* ---- the message source (selfcord) ----
\* an ordinary message: no reference, and nothing its conversion stumbles on
PlainItem == [type |-> "default", reply_to |-> None, convertible |-> TRUE]

\* what a message can be; a reference points to an older message
ItemKinds(n) ==
    {[type |-> t, reply_to |-> r, convertible |-> cv] :
        t \in {"default", "thread_created"}, r \in {None} \cup 1..(n - 1),
        cv \in BOOLEAN}

\* message n of channel c as it was posted
Msg(c, n) == [id |-> n, channel |-> c, type |-> posted[n].type,
              reply_to |-> posted[n].reply_to, convertible |-> posted[n].convertible,
              edited |-> FALSE, content |-> "original"]

\* the same message once its author has edited it
Edited(m) == [m EXCEPT !.edited = TRUE, !.content = "edited"]

IdsAfter(c, after) == SelectSeq(source[c], LAMBDA n : n > after)

\* channel.history(limit=limit, after=after, oldest_first=True)
HistoryOldestFirst(c, limit, after) ==
    LET ids == Take(IdsAfter(c, after), limit)
    IN  [k \in 1..Len(ids) |-> Msg(c, ids[k])]

\* channel.history(limit=limit, oldest_first=None): the newest messages, newest first
HistoryNewestFirst(c, limit) ==
    LET ids == Take(Reverse(source[c]), limit)
    IN  [k \in 1..Len(ids) |-> Msg(c, ids[k])]

\* ---- converters ----
\* DataManager.convert_message raises on a message it cannot convert
convert_message_raises(m) == ~m.convertible

SimpleConvert(m) == [message_id |-> m.id, channel_id |-> m.channel,
                     message_content |-> m.content, edited_timestamp |-> m.edited,
                     reply_to |-> m.reply_to, processed |-> FALSE]

MongoConvert(m) ==
    LET message_obj == [message_id |-> m.id, channel_id |-> m.channel,
                        message_type |-> m.type, edited_timestamp |-> m.edited,
                        reply_to |-> m.reply_to]
    IN  [set |-> IF m.edited THEN Merge(message_obj, [edited_content |-> m.content])
                 ELSE message_obj,
         setOnInsert |-> [message_content |-> m.content, processed |-> FALSE]]

\* ---- DataStore ----
CopiesOfId(msgs, n) ==
    LET docs == {d \in BagToSet(msgs) : d.message_id = n}
        RECURSIVE Sum(_)
        Sum(S) == IF S = {} THEN 0
                  ELSE LET d == CHOOSE x \in S : TRUE IN CopiesIn(d, msgs) + Sum(S \ {d})
    IN  Sum(docs)

message_exists(msgs, n) == \E d \in BagToSet(msgs) : d.message_id = n

\* UpdateOne({"message_id": id}, message, upsert=True)
MongoUpsert(msgs, u) ==
    IF message_exists(msgs, u.set.message_id)
    THEN LET old == CHOOSE d \in BagToSet(msgs) : d.message_id = u.set.message_id
         IN  (msgs (-) SetToBag({old})) (+) SetToBag({Merge(old, u.set)})
    ELSE msgs (+) SetToBag({Merge(u.setOnInsert, u.set)})

RECURSIVE MongoBulkWrite(_, _)
MongoBulkWrite(msgs, us) ==
    IF us = <<>> THEN msgs ELSE MongoBulkWrite(MongoUpsert(msgs, Head(us)), Tail(us))

\* UpdateOne({"message_id": parent}, {"$addToSet": {"replies": child}}, upsert=True)
MongoAddReply(msgs, parent, child) ==
    IF message_exists(msgs, parent)
    THEN LET old == CHOOSE d \in BagToSet(msgs) : d.message_id = parent
         IN  (msgs (-) SetToBag({old}))
             (+) SetToBag({Merge(old, [replies |-> Get(old, "replies", {}) \cup {child}])})
    ELSE msgs (+) SetToBag({[message_id |-> parent, replies |-> {child}]})

\* the second bulk_write of MongoStore.save_messages, for the updaters with a reply_to
RECURSIVE MongoSaveReplies(_, _)
MongoSaveReplies(msgs, us) ==
    IF us = <<>> THEN msgs
    ELSE MongoSaveReplies(IF Head(us).set.reply_to # None
                          THEN MongoAddReply(msgs, Head(us).set.reply_to,
                                             Head(us).set.message_id)
                          ELSE msgs,
                          Tail(us))

RECURSIVE BasicExtend(_, _)
BasicExtend(msgs, ds) ==
    IF ds = <<>> THEN msgs ELSE BasicExtend(msgs (+) SetToBag({Head(ds)}), Tail(ds))

\* DataManager.convert_message with the store's converter, then store.save_messages
store_save_messages(kind, msgs, ms) ==
    IF kind = "MongoStore"
    THEN LET us == [k \in 1..Len(ms) |-> MongoConvert(ms[k])]
         IN  MongoSaveReplies(MongoBulkWrite(msgs, us), us)
    ELSE BasicExtend(msgs, [k \in 1..Len(ms) |-> SimpleConvert(ms[k])])

store_get_frontier(kind, fr, c) ==
    IF kind = "MongoStore" THEN fr[c]
    ELSE IF fr[c] = EmptyDoc THEN [id |-> None, previous_scan_time |-> 0] ELSE fr[c]

store_update_frontier(kind, fr, c, n) ==
    IF kind = "MongoStore"
    THEN [fr EXCEPT ![c] = Merge(fr[c], [id |-> n])]
    ELSE [fr EXCEPT ![c] = Merge(store_get_frontier(kind, fr, c), [id |-> n])]

store_set_frontier(kind, fr, c, data) ==
    IF kind = "MongoStore"
    THEN [fr EXCEPT ![c] = Merge(fr[c], data)]
    ELSE [fr EXCEPT ![c] = data]

\* ---- DataManager ----
get_frontier(c) == store_get_frontier(storeKind, frontier, c)

get_frontier_message(c) ==
    LET mid == Get(get_frontier(c), "id", None)
    IN  IF mid # None THEN mid ELSE None

\* should_rescan with the boundary included
should_rescan_inclusive(c) ==
    LET timestamp == Get(get_frontier(c), "previous_scan_time", 0)
    IN  timestamp * TicksPerSecond <= now - rescan_interval * TicksPerSecond

should_rescan(c) ==
    LET timestamp == Get(get_frontier(c), "previous_scan_time", 0)
    IN  timestamp * TicksPerSecond < now - rescan_interval * TicksPerSecond

\* get_targets that forgets the channels left with a cursor
get_targets_due_only == SelectSeq(channels, LAMBDA x : should_rescan(x))

get_targets ==
    SelectSeq(channels,
              LAMBDA x : get_frontier_message(x) # None \/ should_rescan(x))

\* the messages a save converts: all but the thread_created ones
NotThreadCreated(ms) == SelectSeq(ms, LAMBDA m : m.type # "thread_created")

\* The result of a save: whether it raised, and the store it leaves.
\* The conversions run first and one that raises ends the call. Then
\* store.save_messages runs (pymongo's bulk_write refuses an empty list,
\* BasicStore extends by nothing), then messages[-1] raises IndexError on [].
save_messages(ms, update_frontier) ==
    LET to_convert == NotThreadCreated(ms)
    IN  IF \E k \in 1..Len(to_convert) : convert_message_raises(to_convert[k])
        THEN [raised |-> TRUE, error |-> "ConversionError", messages |-> messages,
              frontier |-> frontier]
        ELSE IF storeKind = "MongoStore" /\ to_convert = <<>>
        THEN [raised |-> TRUE, error |-> "InvalidOperation", messages |-> messages,
              frontier |-> frontier]
        ELSE IF ms = <<>>
        THEN [raised |-> TRUE, error |-> "IndexError", messages |-> messages,
              frontier |-> frontier]
        ELSE [raised |-> FALSE, error |-> "none",
              messages |-> store_save_messages(storeKind, messages, to_convert),
              frontier |-> IF update_frontier
                           THEN store_update_frontier(storeKind, frontier,
                                                      ms[Len(ms)].channel, ms[Len(ms)].id)
                           ELSE frontier]

\* save_message advancing the cursor whatever its flag
save_message_always_advances(m, update_frontier) ==
    [raised |-> FALSE, error |-> "none",
     messages |-> store_save_messages(storeKind, messages, <<m>>),
     frontier |-> store_update_frontier(storeKind, frontier, m.channel, m.id)]

save_message(m, update_frontier) ==
    IF m.type # "thread_created" /\ convert_message_raises(m)
    THEN [raised |-> TRUE, error |-> "ConversionError", messages |-> messages,
          frontier |-> frontier]
    ELSE [raised |-> FALSE, error |-> "none",
          messages |-> IF m.type # "thread_created"
                       THEN store_save_messages(storeKind, messages, <<m>>)
                       ELSE messages,
          frontier |-> IF update_frontier
                       THEN store_update_frontier(storeKind, frontier, m.channel, m.id)
                       ELSE frontier]

\* finish_frontier that resets the cursor and leaves the old timestamp
finish_frontier_keeps_time(c) ==
    LET front == get_frontier(c)
    IN  store_set_frontier(storeKind, frontier, c, Merge(front, [id |-> None]))

finish_frontier(c) ==
    LET front == get_frontier(c)
    IN  store_set_frontier(storeKind, frontier, c,
                                 Merge(front, [id |-> None,
                                         previous_scan_time |-> now \div TicksPerSecond]))

\* ---- Scraper ----
\* the update_frontier default of _process_message and of _process_messages
process_message_update_frontier == FALSE

process_messages_update_frontier == FALSE

\* _scrape_channel's verdict on its batch
scraping_complete(ms) == Len(ms) = 0 \/ Len(ms) # Limit

\* _scrape_unseen_only: what it delivered, knew and saved, and the save's result.
\* The history of at most Limit messages arrives in one request, so the loop
\* over it and the save run without another handler in between.
scrape_unseen_only(c) ==
    LET delivered == HistoryNewestFirst(c, Limit)
        known == {n \in Range(Ids(delivered)) : message_exists(messages, n)}
        res == save_messages(delivered, process_messages_update_frontier)
    IN  IF known # {}
        THEN [raised |-> FALSE, error |-> "none", messages |-> messages,
              frontier |-> frontier,
              log |-> [channel |-> c, delivered |-> Ids(delivered), known |-> known,
                       saved |-> <<>>, raised |-> FALSE]]
        ELSE [raised |-> res.raised, error |-> res.error, messages |-> res.messages,
              frontier |-> res.frontier,
              log |-> [channel |-> c, delivered |-> Ids(delivered), known |-> known,
                       saved |-> IF res.raised THEN <<>> ELSE Ids(delivered),
                       raised |-> res.raised]]

\* bound of the model: no id is stored more than MaxCopies times
WithinCopies(msgs) == \A n \in 1..MaxMsgs : CopiesOfId(msgs, n) <= MaxCopies

Arrived == Cardinality(UNION {Range(source[c]) : c \in Channels})

TimePoints ==
    {StartSecond * TicksPerSecond + j : j \in 0..Jitter}
    \cup {(StartSecond + rescan_interval) * TicksPerSecond + j : j \in 0..Jitter}

\* nothing has run yet: no on_ready, no pass, no call
NotStarted ==
    /\ scraped_initiated = FALSE
    /\ pc = "boot"
    /\ error = "none"
    /\ uidx = 1
    /\ current_channels = <<>>
    /\ i = 0
    /\ channel_id = None
    /\ batch = <<>>
    /\ channel_empty = FALSE
    /\ rpc = "idle"
    /\ ridx = 1
    /\ rounds = [c \in Channels |-> 0]
    /\ pass_start = 0
    /\ grown = {}
    /\ done_in_pass = {}
    /\ lastUnseen = NoUnseen
    /\ fetch_log = <<>>
    /\ lastCall = NoCall
    /\ firstSaved = EmptyDoc
    /\ passed = {}

\* the state before on_ready, with a DataManager built on a store of one of `kinds`
InitWith(kinds) ==
    /\ channels = target_channel_ids
    /\ posted = [n \in 1..MaxMsgs |-> PlainItem]
    /\ now = StartSecond * TicksPerSecond
    /\ source = [c \in Channels |-> <<>>]
    /\ storeKind \in kinds
    /\ messages = EmptyBag
    /\ frontier = [c \in Channels |-> EmptyDoc]
    /\ NotStarted

\* on_ready builds DataManager(target_channel_ids): the default store, MongoStore
Init == InitWith({"MongoStore"})

\* a DataManager built on either DataStore
InitStores == InitWith(StoreKinds)

driverVars == <<pc, error, uidx, current_channels, i, channel_id, batch, channel_empty>>
builtVars == <<channels, posted>>
clientVars == <<lastCall, firstSaved, passed>>
passVars == <<rounds, pass_start, grown, done_in_pass>>
resumeVars == <<rpc, ridx>>

\* time passes
Tick ==
    /\ \E t \in TimePoints : t > now /\ now' = t
    /\ UNCHANGED <<source, storeKind, messages, frontier, scraped_initiated, driverVars,
                   resumeVars, passVars, lastUnseen, fetch_log, builtVars, clientVars>>

\* on_ready without its test of the flag: every on_ready starts begin_scraping
on_ready_always_starts ==
    /\ scraped_initiated' = TRUE
    /\ pc' = "unseen"
    /\ uidx' = 1
    /\ UNCHANGED <<now, source, storeKind, messages, frontier, error, current_channels,
                   i, channel_id, batch, channel_empty, resumeVars, passVars, lastUnseen,
                   fetch_log, builtVars, clientVars>>

\* on_ready: the first one starts begin_scraping, which registers the handlers
\* and awaits on_resume(); a later one finds the flag set
on_ready ==
    /\ IF scraped_initiated
       THEN UNCHANGED <<scraped_initiated, pc, uidx>>
       ELSE /\ scraped_initiated' = TRUE
            /\ pc' = "unseen"
            /\ uidx' = 1
    /\ UNCHANGED <<now, source, storeKind, messages, frontier, error, current_channels,
                   i, channel_id, batch, channel_empty, resumeVars, passVars, lastUnseen,
                   fetch_log, builtVars, clientVars>>

\* a message is posted to a tracked channel; on_message(message) runs when the
\* handler is registered and the gateway delivers the event
Arrive(c, delivered) ==
    /\ Arrived < MaxMsgs
    /\ source' = [source EXCEPT ![c] = Append(@, Arrived + 1)]
    /\ IF delivered /\ scraped_initiated
       THEN LET res == save_message(Msg(c, Arrived + 1), process_message_update_frontier)
            IN  messages' = res.messages /\ frontier' = res.frontier
       ELSE UNCHANGED <<messages, frontier>>
    /\ grown' = grown \cup {c}
    /\ UNCHANGED <<now, storeKind, scraped_initiated, driverVars, resumeVars, rounds,
                   pass_start, done_in_pass, lastUnseen, fetch_log, builtVars, clientVars>>

\* on_message for a message of a channel that is not tracked
on_message_untracked ==
    /\ scraped_initiated
    /\ UNCHANGED vars

\* one iteration of scrape_all_unseen's loop, for the channel at position k
UnseenIteration(k) ==
    LET c == channels[k]
        res == scrape_unseen_only(c)
    IN  IF should_rescan(c)
        THEN [raised |-> FALSE, error |-> "none", messages |-> messages,
              frontier |-> frontier, log |-> lastUnseen]
        ELSE res

\* scrape_all_unseen inside begin_scraping's `await on_resume()`
DriverUnseen ==
    /\ pc = "unseen"
    /\ LET res == UnseenIteration(uidx)
       IN  /\ WithinCopies(res.messages)
           /\ messages' = res.messages
           /\ frontier' = res.frontier
           /\ lastUnseen' = res.log
           /\ pc' = IF res.raised THEN "crashed"
                    ELSE IF uidx = Len(channels) THEN "targets" ELSE "unseen"
           /\ error' = res.error
           /\ uidx' = IF res.raised THEN uidx ELSE uidx + 1
    /\ UNCHANGED <<now, source, storeKind, scraped_initiated, current_channels, i,
                   channel_id, batch, channel_empty, resumeVars, passVars, fetch_log,
                   builtVars, clientVars>>

\* the gateway resumes: on_resume() starts scrape_all_unseen in a task of its own
on_resume ==
    /\ scraped_initiated
    /\ rpc \in {"idle", "failed"}
    /\ rpc' = "unseen"
    /\ ridx' = 1
    /\ UNCHANGED <<now, source, storeKind, messages, frontier, scraped_initiated,
                   driverVars, passVars, lastUnseen, fetch_log, builtVars, clientVars>>

ResumeUnseen ==
    /\ rpc = "unseen"
    /\ LET res == UnseenIteration(ridx)
       IN  /\ WithinCopies(res.messages)
           /\ messages' = res.messages
           /\ frontier' = res.frontier
           /\ lastUnseen' = res.log
           /\ rpc' = IF res.raised THEN "failed"
                     ELSE IF ridx = Len(channels) THEN "idle" ELSE "unseen"
           /\ ridx' = IF res.raised THEN ridx ELSE ridx + 1
    /\ UNCHANGED <<now, source, storeKind, scraped_initiated, driverVars, passVars,
                   fetch_log, builtVars, clientVars>>

\* scrape_all_channels: current_channels = get_targets(); i = 0. It is called
\* when the initial catch-up has returned and whenever sleep(self.sleep_time())
\* is over; the sleep lasts as long as Tick lets it.
GetTargets ==
    /\ pc \in {"targets", "sleep"}
    /\ current_channels' = get_targets
    /\ i' = 0
    /\ pc' = IF get_targets = <<>> THEN "sleep" ELSE "loop"
    /\ rounds' = [c \in Channels |-> 0]
    /\ pass_start' = now
    /\ grown' = {}
    /\ done_in_pass' = {}
    /\ fetch_log' = <<>>
    /\ UNCHANGED <<now, source, storeKind, messages, frontier, scraped_initiated, error,
                   uidx, channel_id, batch, channel_empty, resumeVars, lastUnseen,
                   builtVars, clientVars>>

\* i %= len(current_channels); _scrape_channel up to the end of its fetch
Fetch ==
    /\ pc = "loop"
    /\ LET j == i % Len(current_channels)
           c == current_channels[j + 1]
       IN  /\ rounds[c] < MaxRounds
           /\ i' = j
           /\ channel_id' = c
           /\ batch' = HistoryOldestFirst(c, Limit, get_frontier_message(c))
           /\ rounds' = [rounds EXCEPT ![c] = @ + 1]
           /\ fetch_log' = Append(fetch_log, c)
    /\ pc' = "fetched"
    /\ UNCHANGED <<now, source, storeKind, messages, frontier, scraped_initiated, error,
                   uidx, current_channels, channel_empty, resumeVars, pass_start, grown,
                   done_in_pass, lastUnseen, builtVars, clientVars>>

\* a loop that takes a _scrape_channel that raised for one that found its channel empty
scrape_channel_raised_as_empty(exc) ==
    [pc |-> "returned", error |-> exc, channel_empty |-> TRUE]

\* _scrape_channel raises exc: nothing in scrape_all_channels or begin_scraping
\* catches it, and the coroutine ends
scrape_channel_raised(exc) ==
    [pc |-> "crashed", error |-> exc, channel_empty |-> channel_empty]

\* _process_messages(messages) and _scrape_channel's return
ProcessBatch ==
    /\ pc = "fetched"
    /\ LET res == save_messages(batch, process_messages_update_frontier)
           out == IF res.raised THEN scrape_channel_raised(res.error)
                  ELSE [pc |-> "returned", error |-> error,
                        channel_empty |-> scraping_complete(batch)]
       IN  /\ WithinCopies(res.messages)
           /\ messages' = res.messages
           /\ frontier' = res.frontier
           /\ pc' = out.pc
           /\ error' = out.error
           /\ channel_empty' = out.channel_empty
    /\ UNCHANGED <<now, source, storeKind, scraped_initiated, uidx, current_channels, i,
                   channel_id, batch, resumeVars, passVars, lastUnseen, fetch_log,
                   builtVars, clientVars>>

Pop(s, j) == [k \in 1..(Len(s) - 1) |-> IF k <= j THEN s[k] ELSE s[k + 1]]

\* the rest of the loop body: finish_frontier and pop when the channel is empty; i += 1
FinishOrContinue ==
    /\ pc = "returned"
    /\ IF channel_empty
       THEN /\ frontier' = finish_frontier(current_channels[i + 1])
            /\ current_channels' = Pop(current_channels, i)
            /\ done_in_pass' = done_in_pass \cup {current_channels[i + 1]}
       ELSE UNCHANGED <<frontier, current_channels, done_in_pass>>
    /\ i' = i + 1
    /\ pc' = IF current_channels' = <<>> THEN "sleep" ELSE "loop"
    /\ UNCHANGED <<now, source, storeKind, messages, scraped_initiated, error, uidx,
                   channel_id, batch, channel_empty, resumeVars, rounds, pass_start, grown,
                   lastUnseen, fetch_log, builtVars, clientVars>>

Next ==
    \/ Tick
    \/ on_ready
    \/ \E c \in Channels, delivered \in BOOLEAN : Arrive(c, delivered)
    \/ on_message_untracked
    \/ DriverUnseen
    \/ on_resume
    \/ ResumeUnseen
    \/ GetTargets
    \/ Fetch
    \/ ProcessBatch
    \/ FinishOrContinue

Spec == Init /\ [][Next]_vars

SpecStores == InitStores /\ [][Next]_vars

\* ---- the pass when the network or the store fails ----
\* channel.history raises in _scrape_channel: no batch, and the exception leaves
\* scrape_all_channels
FetchFails ==
    /\ pc = "loop"
    /\ LET j == i % Len(current_channels)
           out == scrape_channel_raised("HTTPException")
       IN  /\ i' = j
           /\ channel_id' = current_channels[j + 1]
           /\ pc' = out.pc
           /\ error' = out.error
           /\ channel_empty' = out.channel_empty
    /\ UNCHANGED <<now, source, storeKind, messages, frontier, scraped_initiated, uidx,
                   current_channels, batch, resumeVars, passVars, lastUnseen, fetch_log,
                   builtVars, clientVars>>

\* MongoStore.save_messages raises in its first bulk_write: the ordered write
\* stops at the request that fails, the k requests before it are applied
StoreFails ==
    /\ pc = "fetched"
    /\ storeKind = "MongoStore"
    /\ LET to_convert == NotThreadCreated(batch)
           us == [k \in 1..Len(to_convert) |-> MongoConvert(to_convert[k])]
           out == scrape_channel_raised("PyMongoError")
       IN  /\ to_convert # <<>>
           /\ \A k \in 1..Len(to_convert) : ~convert_message_raises(to_convert[k])
           /\ \E k \in 0..(Len(us) - 1) : messages' = MongoBulkWrite(messages, Take(us, k))
           /\ pc' = out.pc
           /\ error' = out.error
           /\ channel_empty' = out.channel_empty
    /\ UNCHANGED <<now, source, storeKind, frontier, scraped_initiated, uidx,
                   current_channels, i, channel_id, batch, resumeVars, passVars,
                   lastUnseen, fetch_log, builtVars, clientVars>>

\* the driver and the live handler, with the two failures; no reconnection
NextFaults ==
    \/ Tick
    \/ on_ready
    \/ \E c \in Channels, delivered \in BOOLEAN : Arrive(c, delivered)
    \/ DriverUnseen
    \/ GetTargets
    \/ Fetch
    \/ FetchFails
    \/ ProcessBatch
    \/ StoreFails
    \/ FinishOrContinue

SpecFaults == Init /\ [][NextFaults]_vars

\* ---- a start on what earlier runs left ----
\* the frontier documents DataManager's methods leave: none, the one of
\* finish_frontier, and that one with a cursor set by update_frontier since
PersistedDocs ==
    {EmptyDoc,
     [id |-> None, previous_scan_time |-> StartSecond],
     [id |-> 1, previous_scan_time |-> StartSecond]}

\* MaxPosted messages were posted to three tracked channels before the start
PostedTo(f) ==
    [c \in Channels |-> SelectSeq([n \in 1..MaxPosted |-> n], LAMBDA n : f[n] = c)]

InitRestart ==
    /\ channels = three_target_channel_ids
    /\ posted = [n \in 1..MaxPosted |-> PlainItem]
    /\ now = StartSecond * TicksPerSecond
    /\ source \in {PostedTo(f) : f \in [1..MaxPosted -> Channels]}
    /\ storeKind = "MongoStore"
    /\ messages = EmptyBag
    /\ frontier \in [Channels -> PersistedDocs]
    /\ NotStarted

\* no gateway event but on_ready, and the clock of the start throughout
NextRestart ==
    \/ on_ready
    \/ DriverUnseen
    \/ GetTargets
    \/ Fetch
    \/ ProcessBatch
    \/ FinishOrContinue

SpecRestart == InitRestart /\ [][NextRestart]_vars

\* ---- the DataManager called directly ----
\* MaxItems messages of the first tracked channel, each of some kind; a caller
\* passes a message as it was posted or as it is after an edit
InitApi ==
    /\ channels = target_channel_ids
    /\ posted \in {f \in [1..MaxItems -> UNION {ItemKinds(n) : n \in 1..MaxItems}] :
                       \A n \in 1..MaxItems : f[n] \in ItemKinds(n)}
    /\ now = StartSecond * TicksPerSecond
    /\ source = [c \in Channels |-> IF c = channels[1] THEN [n \in 1..MaxItems |-> n]
                                    ELSE <<>>]
    /\ storeKind \in StoreKinds
    /\ messages = EmptyBag
    /\ frontier = [c \in Channels |-> EmptyDoc]
    /\ NotStarted

ApiItems ==
    {Msg(channels[1], n) : n \in 1..MaxItems}
    \cup {Edited(Msg(channels[1], n)) : n \in 1..MaxItems}

\* the lists a caller passes: oldest first as channel.history yields them, or empty
ApiBatches ==
    {<<>>} \cup {<<m>> : m \in ApiItems}
    \cup {b \in {<<m1, m2>> : m1 \in ApiItems, m2 \in ApiItems} : b[1].id < b[2].id}

Called(op, ms, update_frontier, res) ==
    [op |-> op,
     channel |-> IF ms = <<>> THEN None ELSE ms[Len(ms)].channel,
     ids |-> Ids(ms),
     markers |-> {ms[k].id : k \in {j \in 1..Len(ms) : ms[j].type = "thread_created"}},
     unconvertible |-> {ms[k].id : k \in {j \in 1..Len(ms) :
                            /\ ms[j].type # "thread_created"
                            /\ convert_message_raises(ms[j])}},
     update_frontier |-> update_frontier,
     raised |-> res.raised]

\* firstSaved after the store has taken the converted messages `ms`
RECURSIVE FirstSaves(_, _)
FirstSaves(first, ms) ==
    IF ms = <<>> THEN first
    ELSE FirstSaves(IF Head(ms).id \in DOMAIN first THEN first
                    ELSE Merge(first, [n \in {Head(ms).id} |-> Head(ms).content]),
                    Tail(ms))

\* await data_manager.save_message(m, update_frontier)
ApiSaveMessage(m, update_frontier) ==
    /\ LET res == save_message(m, update_frontier)
       IN  /\ WithinCopies(res.messages)
           /\ messages' = res.messages
           /\ frontier' = res.frontier
           /\ lastCall' = Called("save_message", <<m>>, update_frontier, res)
           /\ firstSaved' = IF res.raised THEN firstSaved
                             ELSE FirstSaves(firstSaved, NotThreadCreated(<<m>>))
           /\ passed' = passed \cup {m.id}
    /\ UNCHANGED <<now, source, storeKind, scraped_initiated, driverVars, resumeVars,
                   passVars, lastUnseen, fetch_log, builtVars>>

\* await data_manager.save_messages(ms, update_frontier)
ApiSaveMessages(ms, update_frontier) ==
    /\ LET res == save_messages(ms, update_frontier)
       IN  /\ WithinCopies(res.messages)
           /\ messages' = res.messages
           /\ frontier' = res.frontier
           /\ lastCall' = Called("save_messages", ms, update_frontier, res)
           /\ firstSaved' = IF res.raised THEN firstSaved
                             ELSE FirstSaves(firstSaved, NotThreadCreated(ms))
           /\ passed' = passed \cup Range(Ids(ms))
    /\ UNCHANGED <<now, source, storeKind, scraped_initiated, driverVars, resumeVars,
                   passVars, lastUnseen, fetch_log, builtVars>>

NextApi ==
    \/ \E m \in ApiItems, update_frontier \in BOOLEAN : ApiSaveMessage(m, update_frontier)
    \/ \E ms \in ApiBatches, update_frontier \in BOOLEAN :
           ApiSaveMessages(ms, update_frontier)

SpecApi == InitApi /\ [][NextApi]_vars

\* ---- properties ----
Cursor(c) == get_frontier_message(c)

\* the stored previous_scan_time of channel c, 0 when the store holds none
PrevScan(c) == Get(frontier[c], "previous_scan_time", 0)

CeilDiv(n, d) == (n + d - 1) \div d

\* the items of a newest-first delivery that come before its first known item
RECURSIVE PrefixBeforeKnown(_, _)
PrefixBeforeKnown(delivered, known) ==
    IF delivered = <<>> \/ Head(delivered) \in known THEN <<>>
    ELSE <<Head(delivered)>> \o PrefixBeforeKnown(Tail(delivered), known)

\* a round of the pass has run for channel_id: its batch was fetched and processed
RoundProcessed == channel_id # None /\ rounds[channel_id] > 0

\* C1: when a non-empty batch of the steady-state pass has been processed, the
\* channel's cursor is the id of the last item of the batch (so that the next
\* fetch asks for the items after it).
C1_BatchAdvancesCursor ==
    (pc = "returned" /\ batch # <<>>) => Cursor(channel_id) = batch[Len(batch)].id

\* C2: in a pass during which a channel gets no new message, the channel is
\* fetched at most ceil(N / Limit) + 1 times, N being its number of messages.
C2_RoundsBounded ==
    \A c \in Channels :
        c \notin grown => rounds[c] <= CeilDiv(Len(source[c]), Limit) + 1

\* C3: a catch-up visit of a channel saves exactly the delivered items that come
\* before the first known one, and never more than Limit of them.
C3_CatchUpBoundary ==
    lastUnseen.channel # None =>
        /\ lastUnseen.saved = PrefixBeforeKnown(lastUnseen.delivered, lastUnseen.known)
        /\ Len(lastUnseen.saved) <= Limit

\* C4: processing an empty batch raises no error, neither in the steady-state
\* pass nor in a catch-up visit.
C4_EmptyBatchNoError ==
    /\ ~(pc = "crashed" /\ batch = <<>>)
    /\ ~(lastUnseen.raised /\ lastUnseen.delivered = <<>>)

\* C5: whichever the store, it never holds more than one record of a message id.
C5_OneRecordPerId ==
    \A n \in 1..MaxMsgs : CopiesOfId(messages, n) <= 1

\* C6: a round of the pass finishes its channel (finish_frontier, removal from
\* the working list) exactly when its batch has fewer than Limit items, zero
\* included; a batch of exactly Limit items leaves the channel in the list.
C6_FinishIffShort ==
    /\ (RoundProcessed /\ pc \in {"returned", "crashed"}) =>
           ((pc = "returned" /\ channel_empty) <=> Len(batch) < Limit)
    /\ (RoundProcessed /\ pc \in {"loop", "sleep"}) =>
           /\ channel_id \in done_in_pass <=> Len(batch) < Limit
           /\ channel_id \in Range(current_channels) <=> Len(batch) = Limit

\* C7 as stated: once the pass has finished a channel, its cursor is null and
\* its previous_scan_time is not before the time the pass started.
C7_Original ==
    \A c \in done_in_pass :
        /\ Cursor(c) = None
        /\ PrevScan(c) * TicksPerSecond >= pass_start

\* C7: once the pass has finished a channel, its cursor is null and its
\* previous_scan_time is not before the whole second in which the pass started
\* (finish_frontier stores int(time.time())); the cursor stays null.
C7_PostPassFrontier ==
    \A c \in done_in_pass :
        /\ Cursor(c) = None
        /\ "id" \in DOMAIN frontier[c]
        /\ PrevScan(c) >= pass_start \div TicksPerSecond

\* C7, the case: a channel was finished in the second in which its pass started,
\* the pass having started at a fraction of that second.
C7_Witness ==
    \E c \in done_in_pass :
        /\ pass_start % TicksPerSecond # 0
        /\ PrevScan(c) = pass_start \div TicksPerSecond

\* C9: no step of a catch-up (in begin_scraping or after on_resume) and no
\* on_message changes a frontier document; only the steady-state pass does.
C9_FrontierFrame ==
    [][frontier' # frontier =>
           /\ ~(DriverUnseen \/ ResumeUnseen \/ on_resume
                \/ \E c \in Channels, d \in BOOLEAN : Arrive(c, d))
           /\ pc \in {"fetched", "returned"}]_vars

\* C9, the case: a catch-up visit has saved messages of a channel, next to a
\* message saved before it, and the channel's frontier is as the pass left it.
C9_Witness ==
    /\ lastUnseen.saved # <<>>
    /\ \E d \in BagToSet(messages) : d.message_id \notin Range(lastUnseen.saved)
    /\ Cursor(lastUnseen.channel) = None
    /\ PrevScan(lastUnseen.channel) > 0

ScanDueInclusive(c) ==
    now - PrevScan(c) * TicksPerSecond >= rescan_interval * TicksPerSecond

ScanDueStrict(c) ==
    now - PrevScan(c) * TicksPerSecond > rescan_interval * TicksPerSecond

\* C10 as stated: should_rescan is true exactly when
\* now - previous_scan_time >= rescan_interval.
C10_Original == \A c \in Channels : should_rescan(c) <=> ScanDueInclusive(c)

\* C10: should_rescan is true exactly when now - previous_scan_time exceeds
\* rescan_interval (previous_scan_time 0 without a frontier document), and it is
\* false right after finish_frontier.
C10_ScanDue ==
    /\ [](\A c \in Channels : should_rescan(c) <=> ScanDueStrict(c))
    /\ [][\A c \in Channels :
              (c \in done_in_pass' /\ c \notin done_in_pass) => ~should_rescan(c)']_vars

\* C10, the case: exactly rescan_interval after the previous_scan_time of a
\* finished channel, which is then not due.
C10_Witness ==
    \E c \in done_in_pass :
        /\ now - PrevScan(c) * TicksPerSecond = rescan_interval * TicksPerSecond
        /\ ~should_rescan(c)

\* C11: no record the store got from a conversion belongs to a thread_created
\* message, whether it came through save_message or in a save_messages batch; and
\* after a call with update_frontier whose messages all convert, the cursor of
\* the channel is the id of the last message passed, also when that message, or
\* every message passed, is of type thread_created.
C11_MarkersSkippedCursorSet ==
    /\ \A d \in BagToSet(messages) :
           "message_content" \in DOMAIN d => posted[d.message_id].type # "thread_created"
    /\ (/\ lastCall.op \in {"save_message", "save_messages"}
        /\ lastCall.update_frontier
        /\ lastCall.ids # <<>>
        /\ lastCall.unconvertible = {})
           => Cursor(lastCall.channel) = lastCall.ids[Len(lastCall.ids)]

\* the stored frontier of channel c holds a cursor
MidPass(c) == Get(frontier[c], "id", None) # None

\* C12: every scrape_all_channels starts from the working list of exactly the
\* tracked channels whose stored frontier holds a cursor or that are due for a
\* scan, computed from the store at that call, in the order of the tracked
\* channels; the pass fetches only channels of its working list, and the list
\* never grows during the pass. So a channel left with a cursor is in the list
\* even when it is not due, and a channel that is neither is not fetched.
C12_WorkingSet ==
    [][/\ GetTargets =>
              current_channels' =
                  SelectSeq(channels, LAMBDA c : MidPass(c) \/ ScanDueStrict(c))
       /\ (pc = "loop" /\ pc' = "fetched") => channel_id' \in Range(current_channels)
       /\ pc \in {"loop", "fetched", "returned"} =>
              Range(current_channels') \subseteq Range(current_channels)]_vars

\* C12, the case: a pass has just taken its working list; a channel with a cursor
\* that is not due is in it, and a channel with neither is not.
C12_Witness ==
    /\ pc = "loop"
    /\ fetch_log = <<>>
    /\ now = pass_start
    /\ \E c \in Range(current_channels) : MidPass(c) /\ ~ScanDueStrict(c)
    /\ \E c \in Channels \ Range(current_channels) : ~MidPass(c) /\ ~ScanDueStrict(c)

\* C13: when the store's save of a batch raises during the pass for channel S,
\* that step and every later one leave the frontier documents as they were
\* before the batch, finish_frontier(S) is not called, and S stays in the
\* working list: whatever fetches S next asks from the same cursor.
C13_StoreFailureKeepsFrontier ==
    /\ [](error = "PyMongoError" =>
              /\ channel_id \notin done_in_pass
              /\ channel_id \in Range(current_channels))
    /\ [][error' = "PyMongoError" =>
              frontier' = frontier /\ done_in_pass' = done_in_pass]_vars

\* C13, the case: the save of a short batch, which would have finished its
\* channel, has raised, for a channel that an earlier pass had finished.
C13_Witness ==
    /\ error = "PyMongoError"
    /\ batch # <<>>
    /\ Len(batch) < Limit
    /\ PrevScan(channel_id) > 0
    /\ Cursor(channel_id) = None

\* C14: a fetch that raises for one channel during the pass does not halt the
\* pass: with other channels still in the working list, the driver is still
\* running and goes on to fetch and finish them.
C14_PassNotHalted ==
    ~(/\ error = "HTTPException"
      /\ pc = "crashed"
      /\ \E c \in Range(current_channels) : c # channel_id)

\* the store holds a converted record of message n
Saved(n) ==
    \E d \in BagToSet(messages) : d.message_id = n /\ "message_content" \in DOMAIN d

\* C15: when the conversion of one message of a save_messages batch raises, only
\* that message is dropped: after the call the store holds a record of every
\* other message of the batch that is not of type thread_created.
C15_MalformedItemDropped ==
    (lastCall.op = "save_messages" /\ Cardinality(lastCall.unconvertible) = 1) =>
        \A n \in Range(lastCall.ids) \ (lastCall.markers \cup lastCall.unconvertible) :
            Saved(n)

\* C16: once a catch-up visit of a channel that is not due has returned, having
\* met fewer than Limit messages the store did not know among the newest ones
\* (so that all the messages missed while disconnected are among them), every
\* one of these messages is in the store, whatever on_message saved before the
\* visit fetched the channel.
C16_CatchUpComplete ==
    (/\ lastUnseen.channel # None
     /\ ~lastUnseen.raised
     /\ Cardinality(Range(lastUnseen.delivered) \ lastUnseen.known) < Limit) =>
        \A n \in Range(lastUnseen.delivered) : message_exists(messages, n)

\* C17: when the pass fetches a channel that it has fetched before in the same
\* invocation, every other channel still in the working list has been fetched
\* between these two fetches, also when a channel was finished and removed in
\* between.
C17_RoundRobinFair ==
    pc = "fetched" =>
        LET n == Len(fetch_log)
            before == {k \in 1..(n - 1) : fetch_log[k] = fetch_log[n]}
        IN  before # {} =>
                LET p == CHOOSE k \in before : \A l \in before : l <= k
                IN  \A c \in Range(current_channels) \ {fetch_log[n]} :
                        \E k \in (p + 1)..(n - 1) : fetch_log[k] = c

\* C18: in MongoStore, the record of every message saved at least once carries
\* message_content and processed as its first save set them, whatever was saved
\* again later and in whatever order the message and the replies to it were
\* saved, a reply before its parent included.
C18_InsertOnlyFields ==
    storeKind = "MongoStore" =>
        \A n \in DOMAIN firstSaved :
            /\ message_exists(messages, n)
            /\ \A d \in BagToSet(messages) :
                   d.message_id = n =>
                       /\ "message_content" \in DOMAIN d
                       /\ d.message_content = firstSaved[n]
                       /\ "processed" \in DOMAIN d
                       /\ d.processed = FALSE

\* C19: message_exists(id) is true only for an id that was itself passed to
\* save_message or save_messages; saving a reply does not make it true for the
\* parent.
C19_MessageExistsSound ==
    \A n \in 1..MaxItems : message_exists(messages, n) => n \in passed

\* C20: whatever on_ready events arrive, also while begin_scraping is suspended,
\* begin_scraping starts at most once (only with the flag unset, which is then
\* set for good, so that one steady-state loop runs at most); and the pass is
\* entered only when the initial catch-up has gone through all tracked channels.
C20_SingleDriver ==
    /\ [](pc \in {"targets", "loop", "fetched", "returned", "sleep"} =>
              uidx = Len(channels) + 1)
    /\ [][/\ scraped_initiated => scraped_initiated'
          /\ (pc' = "unseen" /\ uidx' = 1 /\ ~(pc = "unseen" /\ uidx = 1)) =>
                 (pc = "boot" /\ ~scraped_initiated /\ scraped_initiated')
          /\ (on_ready /\ scraped_initiated) => UNCHANGED vars]_vars

\* C20, the case: begin_scraping, started once, has issued the first fetch of
\* its first pass, after its catch-up visited a channel.
C20_Witness ==
    /\ scraped_initiated
    /\ pc = "fetched"
    /\ Len(fetch_log) = 1
    /\ lastUnseen.channel # None
    /\ lastUnseen.saved # <<>>

====
